---- MODULE Spec2Model ----
(***************************************************************************)
(* ARP scan engine of package arp (src/arp/arp.go): Scan, readARP,         *)
(* writeARP and ips.  The coordinator (Scan) and the listener goroutine    *)
(* (readARP) are two processes sharing the result table `at`, the pcap     *)
(* handle and the unbuffered channel `stop`.                               *)
(***************************************************************************)
EXTENDS Integers, Sequences, FiniteSets, TLC

\* ---------------------------------------------------------------- bounds
\* Most frames the capture resource delivers during one scan.
MaxFrames == 2
\* Largest number of host bits of the contiguous masks given to ips alone.
MaxHostBits == 8
\* Most characters of the string given to IfaceToName.
MaxNameLen == 4

\* ------------------------------------------------------- 32-bit integers
\* A uint32 is kept as two 16-bit halves, [hi, lo], so that every value up
\* to 0xffffffff is representable.

\* binary.BigEndian.Uint32: four bytes, most significant first.
Uint32(b) == [hi |-> b[1] * 256 + b[2], lo |-> b[3] * 256 + b[4]]

\* binary.BigEndian.PutUint32: the four bytes of a uint32, most significant first.
PutUint32(u) == << u.hi \div 256, u.hi % 256, u.lo \div 256, u.lo % 256 >>

\* The constant 0xffffffff.
AllOnes32 == [hi |-> 256 * 256 - 1, lo |-> 256 * 256 - 1]

RECURSIVE BitAnd(_, _)
\* Bitwise and of two naturals.
BitAnd(a, b) ==
    IF a = 0 \/ b = 0 THEN 0
    ELSE (a % 2) * (b % 2) + 2 * BitAnd(a \div 2, b \div 2)

\* num &= mask on uint32.
And32(a, b) == [hi |-> BitAnd(a.hi, b.hi), lo |-> BitAnd(a.lo, b.lo)]

\* x++ on uint32: wraps from 0xffffffff to 0.
Inc32(u) ==
    IF u.lo < 256 * 256 - 1 THEN [hi |-> u.hi, lo |-> u.lo + 1]
    ELSE [hi |-> (u.hi + 1) % (256 * 256), lo |-> 0]

\* a < b on uint32.
Less32(a, b) == a.hi < b.hi \/ (a.hi = b.hi /\ a.lo < b.lo)

\* ------------------------------------------------------------------- ips
\* An entry to the loop that leaves the network address out: num starts at
\* host id 1.
ipsEnter_FromHostOne(n) ==
    [num |-> Inc32(And32(Uint32(n.IP), Uint32(n.Mask))), mask |-> Uint32(n.Mask),
     out |-> << >>]

\* An entry to the loop that leaves the base address unmasked.
ipsEnter_NoMask(n) ==
    [num |-> Uint32(n.IP), mask |-> Uint32(n.Mask), out |-> << >>]

\* The locals of ips on entry to its loop: num holds n.IP & n.Mask.
ipsEnter(n) ==
    [num |-> And32(Uint32(n.IP), Uint32(n.Mask)), mask |-> Uint32(n.Mask), out |-> << >>]

\* The loop condition of ips: mask < 0xffffffff.
ipsRuns(s) == Less32(s.mask, AllOnes32)

\* The loop body of ips: out = append(out, num as 4 bytes); mask++; num++.
ipsBody(s) ==
    [num |-> Inc32(s.num), mask |-> Inc32(s.mask), out |-> Append(s.out, PutUint32(s.num))]

RECURSIVE ipsLoop(_)
\* The loop of ips, run to its end from the locals s; what ips then returns.
ipsLoop(s) == IF ipsRuns(s) THEN ipsLoop(ipsBody(s)) ELSE s.out

\* ips(n *net.IPNet): every address of the network, from n.IP & n.Mask on.
ips(n) == ipsLoop(ipsEnter(n))

\* ------------------------------------------------------------ interfaces
\* net.IP.To4: the 4-byte form of an address, << >> (nil) when it has none.
To4(ip) ==
    IF Len(ip) = 4 THEN ip
    ELSE IF /\ Len(ip) = 16
            /\ \A i \in 1..10 : ip[i] = 0
            /\ ip[11] = 255
            /\ ip[12] = 255
         THEN SubSeq(ip, 13, 16)
         ELSE << >>

\* The nil *net.IPNet.
NilAddr == [IP |-> << >>, Mask |-> << >>]

RECURSIVE SelectAddr(_)
\* The loop over a.iface.Addrs(): the first *net.IPNet whose IP has a 4-byte
\* form, with its mask cut to the trailing 4 bytes; NilAddr when there is none.
SelectAddr(addrs) ==
    IF addrs = << >> THEN NilAddr
    ELSE LET a == Head(addrs) IN
         IF a.IPNet /\ To4(a.IP) # << >>
         THEN [IP |-> To4(a.IP), Mask |-> SubSeq(a.Mask, Len(a.Mask) - 3, Len(a.Mask))]
         ELSE SelectAddr(Tail(addrs))

\* The sanity checks with the missing address looked for before the missing
\* hardware address.
Validate_AddressFirst(i, a) ==
    IF a = NilAddr THEN "no good IP network found"
    ELSE IF Len(i.HardwareAddr) = 0 THEN "Could not obtain MAC address"
    ELSE IF a.IP[1] = 127 THEN "skipping localhost"
    ELSE IF a.Mask[1] # 255 \/ a.Mask[2] # 255 THEN "mask means network is too large"
    ELSE ""

\* The sanity checks with a mask test that fails only when both of the first
\* two mask bytes are off.
Validate_BothBytesOff(i, a) ==
    IF Len(i.HardwareAddr) = 0 THEN "Could not obtain MAC address"
    ELSE IF a = NilAddr THEN "no good IP network found"
    ELSE IF a.IP[1] = 127 THEN "skipping localhost"
    ELSE IF a.Mask[1] # 255 /\ a.Mask[2] # 255 THEN "mask means network is too large"
    ELSE ""

\* The sanity checks of Scan, in the order the code makes them; "" when all pass.
Validate(i, a) ==
    IF Len(i.HardwareAddr) = 0 THEN "Could not obtain MAC address"
    ELSE IF a = NilAddr THEN "no good IP network found"
    ELSE IF a.IP[1] = 127 THEN "skipping localhost"
    ELSE IF a.Mask[1] # 255 \/ a.Mask[2] # 255 THEN "mask means network is too large"
    ELSE ""

\* ---------------------------------------------------------------- inputs
\* Hardware addresses: the scanning interface's and two peers'.
LocalHW == << 170, 187, 204, 221, 238, 255 >>
Peer1HW == << 2, 0, 0, 0, 0, 9 >>
Peer2HW == << 2, 0, 0, 0, 0, 20 >>

\* Addresses an interface may be bound to, as net.Interface.Addrs reports them.
AddrV6 ==
    [IPNet |-> TRUE,
     IP |-> << 254, 128, 0, 0, 0, 0, 0, 0, 0, 0, 0, 0, 0, 0, 0, 1 >>,
     Mask |-> << 255, 255, 255, 255, 255, 255, 255, 255, 0, 0, 0, 0, 0, 0, 0, 0 >>]
AddrLoopback ==
    [IPNet |-> TRUE, IP |-> << 127, 0, 0, 1 >>, Mask |-> << 255, 0, 0, 0 >>]
AddrWide ==
    [IPNet |-> TRUE, IP |-> << 10, 0, 0, 5 >>, Mask |-> << 255, 254, 0, 0 >>]
AddrSlash30 ==
    [IPNet |-> TRUE,
     IP |-> << 0, 0, 0, 0, 0, 0, 0, 0, 0, 0, 255, 255, 192, 168, 1, 5 >>,
     Mask |-> << 255, 255, 255, 252 >>]
AddrSlash31 ==
    [IPNet |-> TRUE,
     IP |-> << 10, 0, 0, 5 >>,
     Mask |-> << 255, 255, 255, 255, 255, 255, 255, 255, 255, 255, 255, 255,
                 255, 255, 255, 254 >>]
\* A single host: every bit of the mask is set.
AddrSlash32 ==
    [IPNet |-> TRUE, IP |-> << 192, 168, 1, 7 >>, Mask |-> << 255, 255, 255, 255 >>]
AddrPool == {AddrV6, AddrLoopback, AddrWide, AddrSlash30, AddrSlash31}

\* Address lists of an interface: none, one or two bound addresses.
AddrLists ==
    {<< >>} \cup {<< x >> : x \in AddrPool} \cup {<< x, y >> : x, y \in AddrPool}

\* Interface descriptors (*net.Interface): with and without a hardware address.
Ifaces == [HardwareAddr : {<< >>, LocalHW}, Addrs : AddrLists]

\* Frames the capture resource can deliver (gopacket.Packet): a frame without
\* an ARP layer, and ARP requests and replies of the interface itself and of peers.
NoARP == [ARP |-> FALSE, Operation |-> "", SourceHwAddress |-> << >>, SourceProtAddress |-> << >>]
ARPFrame(op, hw, ip) ==
    [ARP |-> TRUE, Operation |-> op, SourceHwAddress |-> hw, SourceProtAddress |-> ip]
OwnRequests ==
    {ARPFrame("request", LocalHW, ip) : ip \in {<< 192, 168, 1, 5 >>, << 10, 0, 0, 5 >>}}
Frames ==
    {NoARP,
     ARPFrame("reply", LocalHW, << 192, 168, 1, 5 >>),
     ARPFrame("request", Peer1HW, << 192, 168, 1, 6 >>),
     ARPFrame("reply", Peer1HW, << 192, 168, 1, 6 >>),
     ARPFrame("reply", Peer2HW, << 10, 0, 0, 4 >>)} \cup OwnRequests

\* Interfaces for the mask check: one non-loopback address, in 4-byte or
\* 16-byte form, under masks around the /16 boundary, contiguous or not.
BoundaryMasks ==
    {<< m1, m2, m3, m4 >> : m1 \in {255, 254, 0}, m2 \in {255, 254, 0},
                            m3 \in {0, 255}, m4 \in {0, 255}}
BoundaryIfaces ==
    {[HardwareAddr |-> LocalHW, Addrs |-> << [IPNet |-> TRUE, IP |-> ip, Mask |-> m] >>] :
        ip \in {<< 10, 0, 0, 5 >>,
                << 0, 0, 0, 0, 0, 0, 0, 0, 0, 0, 255, 255, 192, 168, 1, 5 >>},
        m \in BoundaryMasks}

\* The contiguous mask with h host bits (h <= 16), as four bytes.
ContiguousMask(h) == PutUint32([hi |-> 256 * 256 - 1, lo |-> 256 * 256 - 2 ^ h])

\* Networks given to ips on its own: base addresses with and without host bits
\* set, under every contiguous mask of at most MaxHostBits host bits.
IpsBases ==
    {<< 192, 168, 1, 0 >>, << 192, 168, 1, 5 >>, << 10, 0, 0, 5 >>,
     << 172, 16, 255, 254 >>, << 10, 0, 255, 129 >>, << 0, 0, 0, 0 >>,
     << 255, 255, 255, 255 >>}
IpsInputs ==
    {[IP |-> b, Mask |-> ContiguousMask(h)] : b \in IpsBases, h \in 0..MaxHostBits}

\* Strings are sequences of characters.  The characters of the strings given to
\* IfaceToName, the literal "all", and the interface lists of the hosts it runs on.
Chars == {"a", "l", ","}
All == << "a", "l", "l" >>
NameInputs == UNION {[1..n -> Chars] : n \in 0..MaxNameLen}
Hosts ==
    {<< >>,
     << << "a" >> >>,
     << << "l" >>, << "a" >> >>,
     << << "a" >>, << "a", "l" >> >>,
     << << "a", "l", "l" >>, << "a" >>, << "l", "a" >> >>}

\* ----------------------------------------------------------------- state
VARIABLES
    iface,     \* a.iface: the interface descriptor Scan works on
    pc,        \* the coordinator's position in Scan and writeARP
    addr,      \* Scan's addr: the selected *net.IPNet
    at,        \* Scan's at: the result table the listener appends to
    err,       \* the error Scan returns, "" for nil
    ret,       \* the table Scan hands to its caller
    handle,    \* the pcap handle: "unopened", "open", "closed"
    closes,    \* number of handle.Close() calls made
    stop,      \* the stop channel: "nil", "open", "closed"
    lpc,       \* the listener's position in readARP
    packet,    \* readARP's packet: the frame it is working on
    in,        \* src.Packets(): frames captured and not yet taken
    arrivals,  \* number of frames captured so far
    out,       \* the candidate sequence writeARP ranges over
    idx,       \* number of candidates writeARP has gone through
    wrote,     \* target addresses of the frames written to the handle
    loc,       \* the locals num, mask and out of a call of ips followed step by step
    rdv,       \* the send on stop: whether it completed, and at, in and due then
    due,       \* entries of the peers' replies captured so far, in arrival order
    interfaceNames, \* IfaceToName's argument, a string as its characters
    hostIfaces,     \* the interface names net.Interfaces() reports, in its order
    named           \* what IfaceToName returns: its r and its error (<< >> for nil)

vars ==
    << iface, pc, addr, at, err, ret, handle, closes, stop, lpc, packet, in,
       arrivals, out, idx, wrote, loc, rdv, due, interfaceNames, hostIfaces,
       named >>

\* The variables of IfaceToName.
nameVars == << interfaceNames, hostIfaces, named >>

\* What Scan starts from: its locals at their zero values, nothing opened.
Fresh ==
    /\ at = << >>
    /\ err = ""
    /\ ret = << >>
    /\ handle = "unopened"
    /\ closes = 0
    /\ stop = "nil"
    /\ lpc = "none"
    /\ packet = NoARP
    /\ in = << >>
    /\ arrivals = 0
    /\ out = << >>
    /\ idx = 0
    /\ wrote = << >>
    /\ loc = [num |-> Uint32(<< 0, 0, 0, 0 >>), mask |-> Uint32(<< 0, 0, 0, 0 >>), out |-> << >>]
    /\ rdv = [done |-> FALSE, at |-> << >>, in |-> << >>, due |-> << >>]
    /\ due = << >>
    /\ named = [r |-> << >>, err |-> << >>]

\* The call of Scan on an interface.
Init ==
    /\ pc = "Addrs"
    /\ iface \in Ifaces
    /\ addr = NilAddr
    /\ interfaceNames = << >>
    /\ hostIfaces = << >>
    /\ Fresh

\* ------------------------------------------------------------ coordinator
\* The table a read of at yields.  While the listener is in the middle of an
\* append the read races with the write: it sees the table before or after it.
arpTable(p) == [IP |-> p.SourceProtAddress, HardwareAddr |-> p.SourceHwAddress]
ReadAt == IF lpc = "append" THEN {at, Append(at, arpTable(packet))} ELSE {at}

\* a.iface.Addrs() and its error return.
Scan_Addrs ==
    /\ pc = "Addrs"
    /\ \E ok \in BOOLEAN :
          IF ok
          THEN /\ pc' = "Resolve"
               /\ UNCHANGED << err, ret >>
          ELSE /\ pc' = "Done"
               /\ err' = "addrs error"
               /\ ret' = at
    /\ UNCHANGED << iface, addr, at, handle, closes, stop, lpc, packet, in,
                    arrivals, out, idx, wrote, rdv, loc,
                    due, nameVars >>

\* A Scan that opens the capture handle before it makes its sanity checks.
Scan_Resolve_HandleFirst ==
    /\ pc = "Resolve"
    /\ addr' = SelectAddr(iface.Addrs)
    /\ handle' = "open"
    /\ LET e == Validate(iface, addr') IN
          IF e = ""
          THEN /\ pc' = "OpenLive"
               /\ UNCHANGED << err, ret >>
          ELSE /\ pc' = "Done"
               /\ err' = e
               /\ ret' = at
    /\ UNCHANGED << iface, at, closes, stop, lpc, packet, in, arrivals, out, idx,
                    wrote, loc, rdv,
                    due, nameVars >>

\* The address selection loop and the sanity checks that follow it.
Scan_Resolve ==
    /\ pc = "Resolve"
    /\ addr' = SelectAddr(iface.Addrs)
    /\ LET e == Validate(iface, addr') IN
          IF e = ""
          THEN /\ pc' = "OpenLive"
               /\ UNCHANGED << err, ret >>
          ELSE /\ pc' = "Done"
               /\ err' = e
               /\ ret' = at
    /\ UNCHANGED << iface, at, handle, closes, stop, lpc, packet, in, arrivals,
                    out, idx, wrote, rdv, loc,
                    due, nameVars >>

\* pcap.OpenLive and its error return; on success handle.Close is deferred.
Scan_OpenLive ==
    /\ pc = "OpenLive"
    /\ \E ok \in BOOLEAN :
          IF ok
          THEN /\ pc' = "Go"
               /\ handle' = "open"
               /\ UNCHANGED << err, ret >>
          ELSE /\ pc' = "Done"
               /\ err' = "open error"
               /\ ret' = at
               /\ UNCHANGED handle
    /\ UNCHANGED << iface, addr, at, closes, stop, lpc, packet, in, arrivals,
                    out, idx, wrote, rdv, loc,
                    due, nameVars >>

\* stop := make(chan bool); go readARP(...); defer close(stop).
Scan_Go ==
    /\ pc = "Go"
    /\ stop' = "open"
    /\ lpc' = "select"
    /\ pc' = "writeARP"
    /\ UNCHANGED << iface, addr, at, err, ret, handle, closes, packet, in,
                    arrivals, out, idx, wrote, rdv, loc,
                    due, nameVars >>

\* writeARP up to its loop: the frame templates and the evaluation of ips(addr).
writeARP_Begin ==
    /\ pc = "writeARP"
    /\ out' = ips(addr)
    /\ idx' = 0
    /\ pc' = "Write"
    /\ UNCHANGED << iface, addr, at, err, ret, handle, closes, stop, lpc,
                    packet, in, arrivals, wrote, rdv, loc,
                    due, nameVars >>

\* A loop that goes on to the next candidate after a failed write.
AfterWriteError_Continues == "Write"

\* Where writeARP goes after handle.WritePacketData fails for a candidate.
AfterWriteError == "ReturnErr"

\* One iteration of writeARP's loop: the frame for the next candidate is
\* written, or the write fails and writeARP returns the error to Scan.
writeARP_Write ==
    /\ pc = "Write"
    /\ idx < Len(out)
    /\ \E ok \in BOOLEAN :
          IF ok
          THEN /\ wrote' = Append(wrote, out[idx + 1])
               /\ pc' = "Write"
               /\ UNCHANGED err
          ELSE /\ err' = "write error"
               /\ pc' = AfterWriteError
               /\ UNCHANGED wrote
    /\ idx' = idx + 1
    /\ UNCHANGED << iface, addr, at, ret, handle, closes, stop, lpc, packet, in,
                    arrivals, out, rdv, loc,
                    due, nameVars >>

\* A writeARP that may return nil with candidates still to be written.
writeARP_Return_Early ==
    /\ pc = "Write"
    /\ idx <= Len(out)
    /\ pc' = "Sleep"
    /\ UNCHANGED << iface, addr, at, err, ret, handle, closes, stop, lpc,
                    packet, in, arrivals, out, idx, wrote, rdv, loc,
                    due, nameVars >>

\* writeARP returns nil after the last candidate.
writeARP_Return ==
    /\ pc = "Write"
    /\ idx = Len(out)
    /\ pc' = "Sleep"
    /\ UNCHANGED << iface, addr, at, err, ret, handle, closes, stop, lpc,
                    packet, in, arrivals, out, idx, wrote, rdv, loc,
                    due, nameVars >>

\* An error return that closes stop itself, with the deferred close still to run.
Scan_ReturnErr_ClosesStop ==
    /\ pc = "ReturnErr"
    /\ ret' \in ReadAt
    /\ stop' = "closed"
    /\ pc' = "CloseStop"
    /\ UNCHANGED << iface, addr, at, err, handle, closes, lpc, packet, in,
                    arrivals, out, idx, wrote, rdv, loc,
                    due, nameVars >>

\* return at, err after writeARP failed: the operand at is read here.
Scan_ReturnErr ==
    /\ pc = "ReturnErr"
    /\ ret' \in ReadAt
    /\ pc' = "CloseStop"
    /\ UNCHANGED << iface, addr, at, err, handle, closes, stop, lpc, packet, in,
                    arrivals, out, idx, wrote, rdv, loc,
                    due, nameVars >>

\* time.Sleep(2 * time.Second): the collection window passes.
Scan_Sleep ==
    /\ pc = "Sleep"
    /\ pc' = "SendStop"
    /\ UNCHANGED << iface, addr, at, err, ret, handle, closes, stop, lpc,
                    packet, in, arrivals, out, idx, wrote, rdv, loc,
                    due, nameVars >>

\* A listener that takes the value sent on stop and goes round its loop again.
AfterStopReceived_LoopsOn == "select"

\* The listener's position once it has taken the value sent on stop.
AfterStopReceived == "stopped"

\* A select that takes the stop signal only when no frame is waiting.
Scan_SendStop_FramesFirst ==
    /\ pc = "SendStop"
    /\ stop = "open"
    /\ lpc = "select"
    /\ in = << >>
    /\ lpc' = AfterStopReceived
    /\ pc' = "ReturnOk"
    /\ rdv' = [done |-> TRUE, at |-> at, in |-> in, due |-> due]
    /\ UNCHANGED << iface, addr, at, err, ret, handle, closes, stop, packet, in,
                    arrivals, out, idx, wrote, loc, due, nameVars >>

\* stop <- true meets readARP's case <-stop: the send on the unbuffered channel
\* completes only together with the listener's receive, and the listener returns.
Scan_SendStop ==
    /\ pc = "SendStop"
    /\ stop = "open"
    /\ lpc = "select"
    /\ lpc' = AfterStopReceived
    /\ pc' = "ReturnOk"
    /\ rdv' = [done |-> TRUE, at |-> at, in |-> in, due |-> due]
    /\ UNCHANGED << iface, addr, at, err, ret, handle, closes, stop, packet, in,
                    arrivals, out, idx, wrote, loc, due, nameVars >>

\* return at, nil.
Scan_ReturnOk ==
    /\ pc = "ReturnOk"
    /\ ret' \in ReadAt
    /\ pc' = "CloseStop"
    /\ UNCHANGED << iface, addr, at, err, handle, closes, stop, lpc, packet, in,
                    arrivals, out, idx, wrote, rdv, loc,
                    due, nameVars >>

\* A return that leaves stop open: no deferred close(stop).
Scan_CloseStop_Missing ==
    /\ pc = "CloseStop"
    /\ pc' = "CloseHandle"
    /\ UNCHANGED << iface, addr, at, err, ret, handle, closes, stop, lpc, packet,
                    in, arrivals, out, idx, wrote, rdv, loc,
                    due, nameVars >>

\* The deferred close(stop), run first on return.
Scan_CloseStop ==
    /\ pc = "CloseStop"
    /\ stop' = "closed"
    /\ pc' = "CloseHandle"
    /\ UNCHANGED << iface, addr, at, err, ret, handle, closes, lpc, packet, in,
                    arrivals, out, idx, wrote, rdv, loc,
                    due, nameVars >>

\* The deferred handle.Close(), run last; Scan has then returned.
Scan_CloseHandle ==
    /\ pc = "CloseHandle"
    /\ handle' = "closed"
    /\ closes' = closes + 1
    /\ pc' = "Done"
    /\ UNCHANGED << iface, addr, at, err, ret, stop, lpc, packet, in, arrivals,
                    out, idx, wrote, rdv, loc,
                    due, nameVars >>

\* --------------------------------------------------------------- listener
\* A filter without the comparison with the interface's own hardware address.
Discards_NoSelfCheck(p, i) ==
    \/ ~p.ARP
    \/ p.Operation # "reply"

\* The frames readARP drops with continue: no ARP layer, not a reply, or sent
\* by the interface itself.
Discards(p, i) ==
    \/ ~p.ARP
    \/ p.Operation # "reply"
    \/ p.SourceHwAddress = i.HardwareAddr

\* case packet = <-in: the next frame is taken and dropped or kept for the append.
readARP_Packet ==
    /\ lpc = "select"
    /\ in # << >>
    /\ packet' = Head(in)
    /\ in' = Tail(in)
    /\ lpc' = IF Discards(packet', iface) THEN "select" ELSE "append"
    /\ UNCHANGED << iface, pc, addr, at, err, ret, handle, closes, stop,
                    arrivals, out, idx, wrote, rdv, loc,
                    due, nameVars >>

\* An append that leaves out an entry the table already holds.
readARP_Append_Dedup ==
    /\ lpc = "append"
    /\ at' = IF \E k \in 1..Len(at) : at[k] = arpTable(packet)
             THEN at
             ELSE Append(at, arpTable(packet))
    /\ lpc' = "select"
    /\ UNCHANGED << iface, pc, addr, err, ret, handle, closes, stop, packet, in,
                    arrivals, out, idx, wrote, rdv, loc, due, nameVars >>

\* *arpTables = append(*arpTables, arpTable{...}).
readARP_Append ==
    /\ lpc = "append"
    /\ at' = Append(at, arpTable(packet))
    /\ lpc' = "select"
    /\ UNCHANGED << iface, pc, addr, err, ret, handle, closes, stop, packet, in,
                    arrivals, out, idx, wrote, rdv, loc,
                    due, nameVars >>

\* case <-stop on the closed channel: the listener returns.
readARP_Closed ==
    /\ lpc = "select"
    /\ stop = "closed"
    /\ lpc' = "stopped"
    /\ UNCHANGED << iface, pc, addr, at, err, ret, handle, closes, stop, packet,
                    in, arrivals, out, idx, wrote, rdv, loc,
                    due, nameVars >>

\* ------------------------------------------------------------ environment
\* The capture resource delivers a frame to src.Packets() while the handle is
\* open and the listener has set the packet source up.  The interface's own
\* request is seen only once a request was written.  due keeps the entries of
\* the replies of peers among the frames delivered.
ArriveOf(frames) ==
    /\ handle = "open"
    /\ lpc # "none"
    /\ arrivals < MaxFrames
    /\ \E f \in frames :
          /\ f \in OwnRequests => (wrote # << >> /\ f.SourceProtAddress = addr.IP)
          /\ in' = Append(in, f)
          /\ due' = IF /\ f.ARP
                       /\ f.Operation = "reply"
                       /\ f.SourceHwAddress # iface.HardwareAddr
                    THEN Append(due, arpTable(f))
                    ELSE due
    /\ arrivals' = arrivals + 1
    /\ UNCHANGED << iface, pc, addr, at, err, ret, handle, closes, stop, lpc,
                    packet, out, idx, wrote, rdv, loc, nameVars >>

\* Any frame may arrive.
Arrive == ArriveOf(Frames)

Next ==
    \/ Scan_Addrs
    \/ Scan_Resolve
    \/ Scan_OpenLive
    \/ Scan_Go
    \/ writeARP_Begin
    \/ writeARP_Write
    \/ writeARP_Return
    \/ Scan_ReturnErr
    \/ Scan_Sleep
    \/ Scan_SendStop
    \/ Scan_ReturnOk
    \/ Scan_CloseStop
    \/ Scan_CloseHandle
    \/ readARP_Packet
    \/ readARP_Append
    \/ readARP_Closed
    \/ Arrive

Spec == Init /\ [][Next]_vars

\* ------------------------------------------------------ Scan under traffic
\* The call of Scan on an interface that passes the checks, with a range of one
\* candidate or of none.
InitFair ==
    /\ pc = "Addrs"
    /\ iface \in {[HardwareAddr |-> LocalHW, Addrs |-> << x >>] :
                    x \in {AddrSlash31, AddrSlash32}}
    /\ addr = NilAddr
    /\ interfaceNames = << >>
    /\ hostIfaces = << >>
    /\ Fresh

\* A reply of a peer arrives.
ArriveReply == ArriveOf({ARPFrame("reply", Peer1HW, << 192, 168, 1, 6 >>)})

\* Frames without an ARP layer keep coming for as long as the handle is open
\* and fewer than two frames wait in src.Packets(): traffic that never ends.
Flood ==
    /\ handle = "open"
    /\ lpc # "none"
    /\ Len(in) < 2
    /\ in' = Append(in, NoARP)
    /\ UNCHANGED << iface, pc, addr, at, err, ret, handle, closes, stop, lpc,
                    packet, arrivals, out, idx, wrote, rdv, loc, due, nameVars >>

\* The steps of the coordinator that need nobody else: each returns in time.
Coordinator ==
    \/ Scan_Addrs
    \/ Scan_Resolve
    \/ Scan_OpenLive
    \/ Scan_Go
    \/ writeARP_Begin
    \/ writeARP_Write
    \/ writeARP_Return
    \/ Scan_ReturnErr
    \/ Scan_Sleep
    \/ Scan_ReturnOk
    \/ Scan_CloseStop
    \/ Scan_CloseHandle

\* The steps of the listener.
Listener ==
    \/ readARP_Packet
    \/ readARP_Append
    \/ readARP_Closed

NextFair ==
    \/ Coordinator
    \/ Scan_SendStop
    \/ Listener
    \/ ArriveReply
    \/ Flood

\* The goroutines are scheduled fairly: the coordinator's own steps and the
\* listener's append are taken when they stay possible.  A select with several
\* ready cases picks one at random, so a case that is ready again and again
\* (the receive from stop, by rendezvous or from the closed channel) is
\* eventually the one picked.  Nothing is assumed of the arriving frames.
SpecFair ==
    /\ InitFair
    /\ [][NextFair]_vars
    /\ WF_vars(Scan_Addrs)
    /\ WF_vars(Scan_Resolve)
    /\ WF_vars(Scan_OpenLive)
    /\ WF_vars(Scan_Go)
    /\ WF_vars(writeARP_Begin)
    /\ WF_vars(writeARP_Write)
    /\ WF_vars(writeARP_Return)
    /\ WF_vars(Scan_ReturnErr)
    /\ WF_vars(Scan_Sleep)
    /\ WF_vars(Scan_ReturnOk)
    /\ WF_vars(Scan_CloseStop)
    /\ WF_vars(Scan_CloseHandle)
    /\ WF_vars(readARP_Append)
    /\ SF_vars(Scan_SendStop)
    /\ SF_vars(readARP_Closed)

\* ------------------------------------------- Scan up to the opened capture
\* The call of Scan on an interface chosen for its mask.
InitResolve ==
    /\ pc = "Addrs"
    /\ iface \in BoundaryIfaces
    /\ addr = NilAddr
    /\ interfaceNames = << >>
    /\ hostIfaces = << >>
    /\ Fresh

\* Scan as far as pcap.OpenLive.
NextResolve ==
    \/ Scan_Addrs
    \/ Scan_Resolve
    \/ Scan_OpenLive

SpecResolve == InitResolve /\ [][NextResolve]_vars

\* ----------------------------------------------- Scan under a mask with gaps
\* Masks that pass the check of the first two bytes with a zero bit above a
\* one bit in the last byte, and the contiguous 255.255.255.252 beside them.
GapMasks ==
    {<< 255, 255, 255, 253 >>, << 255, 255, 255, 251 >>, << 255, 255, 255, 250 >>,
     << 255, 255, 255, 252 >>}
GapIfaces ==
    {[HardwareAddr |-> LocalHW, Addrs |-> << [IPNet |-> TRUE, IP |-> ip, Mask |-> m] >>] :
        ip \in {<< 192, 168, 1, 4 >>, << 10, 0, 0, 5 >>}, m \in GapMasks}

\* The call of Scan on an interface chosen for the gaps of its mask.
InitGaps ==
    /\ pc = "Addrs"
    /\ iface \in GapIfaces
    /\ addr = NilAddr
    /\ interfaceNames = << >>
    /\ hostIfaces = << >>
    /\ Fresh

SpecGaps == InitGaps /\ [][Next]_vars

\* ---------------------------------------------------------- ips on its own
\* A call of ips on a network.
InitIps ==
    /\ pc = "ips"
    /\ iface = [HardwareAddr |-> LocalHW, Addrs |-> << >>]
    /\ addr \in IpsInputs
    /\ interfaceNames = << >>
    /\ hostIfaces = << >>
    /\ Fresh

\* ips is entered: num and mask are read from the network.
ips_Enter ==
    /\ pc = "ips"
    /\ loc' = ipsEnter(addr)
    /\ pc' = "ips loop"
    /\ UNCHANGED << iface, addr, at, err, ret, handle, closes, stop, lpc,
                    packet, in, arrivals, out, idx, wrote, rdv,
                    due, nameVars >>

\* One iteration of the loop of ips.
ips_Iterate ==
    /\ pc = "ips loop"
    /\ ipsRuns(loc)
    /\ loc' = ipsBody(loc)
    /\ UNCHANGED << iface, pc, addr, at, err, ret, handle, closes, stop, lpc,
                    packet, in, arrivals, out, idx, wrote, rdv,
                    due, nameVars >>

\* The loop of ips ends and ips returns out.
ips_Return ==
    /\ pc = "ips loop"
    /\ ~ipsRuns(loc)
    /\ out' = loc.out
    /\ pc' = "ips returned"
    /\ UNCHANGED << iface, addr, at, err, ret, handle, closes, stop, lpc,
                    packet, in, arrivals, idx, wrote, loc, rdv,
                    due, nameVars >>

NextIps ==
    \/ ips_Enter
    \/ ips_Iterate
    \/ ips_Return

SpecIps == InitIps /\ [][NextIps]_vars

\* ------------------------------------------------------- writeARP on its own
\* Networks given to writeARP: those of IpsInputs and two bases under the
\* masks with gaps.
WriteInputs ==
    IpsInputs \cup {[IP |-> ip, Mask |-> m] : ip \in {<< 192, 168, 1, 4 >>, << 10, 0, 0, 5 >>},
                                             m \in GapMasks}

\* A call of writeARP on an opened handle, the listener started, at the
\* evaluation of ips(addr).
InitWrite ==
    /\ pc = "ips"
    /\ iface = [HardwareAddr |-> LocalHW, Addrs |-> << >>]
    /\ addr \in WriteInputs
    /\ interfaceNames = << >>
    /\ hostIfaces = << >>
    /\ at = << >>
    /\ err = ""
    /\ ret = << >>
    /\ handle = "open"
    /\ closes = 0
    /\ stop = "open"
    /\ lpc = "select"
    /\ packet = NoARP
    /\ in = << >>
    /\ arrivals = 0
    /\ out = << >>
    /\ idx = 0
    /\ wrote = << >>
    /\ loc = [num |-> Uint32(<< 0, 0, 0, 0 >>), mask |-> Uint32(<< 0, 0, 0, 0 >>), out |-> << >>]
    /\ rdv = [done |-> FALSE, at |-> << >>, in |-> << >>, due |-> << >>]
    /\ due = << >>
    /\ named = [r |-> << >>, err |-> << >>]

\* for _, ip := range ips(addr): the loop of writeARP starts on what ips returned.
writeARP_Range ==
    /\ pc = "ips returned"
    /\ idx' = 0
    /\ pc' = "Write"
    /\ UNCHANGED << iface, addr, at, err, ret, handle, closes, stop, lpc,
                    packet, in, arrivals, out, wrote, rdv, loc,
                    due, nameVars >>

NextWrite ==
    \/ ips_Enter
    \/ ips_Iterate
    \/ ips_Return
    \/ writeARP_Range
    \/ writeARP_Write
    \/ writeARP_Return

SpecWrite == InitWrite /\ [][NextWrite]_vars

\* ------------------------------------------------------------- IfaceToName
RECURSIVE Split(_)
\* strings.Split(s, ","): the pieces of s between its commas, one more than
\* there are commas.
Split(s) ==
    IF \A k \in 1..Len(s) : s[k] # ","
    THEN << s >>
    ELSE LET c == CHOOSE k \in 1..Len(s) : s[k] = "," /\ \A j \in 1..(k - 1) : s[j] # ","
         IN  << SubSeq(s, 1, c - 1) >> \o Split(SubSeq(s, c + 1, Len(s)))

\* net.InterfaceByName(name) succeeds: the host has an interface of that name.
InterfaceByName(name, host) ==
    name # << >> /\ \E k \in 1..Len(host) : host[k] = name

\* A validation loop that goes through every name and keeps the last failure.
Unknown_Last(names, host) ==
    IF \A k \in 1..Len(names) : InterfaceByName(names[k], host)
    THEN 0
    ELSE CHOOSE k \in 1..Len(names) :
            /\ ~InterfaceByName(names[k], host)
            /\ \A j \in (k + 1)..Len(names) : InterfaceByName(names[j], host)

\* The loop over r: the index of the name at which it returns the error, 0 when
\* it runs to its end.
Unknown(names, host) ==
    IF \A k \in 1..Len(names) : InterfaceByName(names[k], host)
    THEN 0
    ELSE CHOOSE k \in 1..Len(names) :
            /\ ~InterfaceByName(names[k], host)
            /\ \A j \in 1..(k - 1) : InterfaceByName(names[j], host)

\* A call of IfaceToName on a host.
InitNames ==
    /\ pc = "IfaceToName"
    /\ interfaceNames \in NameInputs
    /\ hostIfaces \in Hosts
    /\ iface = [HardwareAddr |-> LocalHW, Addrs |-> << >>]
    /\ addr = NilAddr
    /\ Fresh

\* IfaceToName(interfaceNames): for "all" the names net.Interfaces() gives, or
\* its error; otherwise the pieces of the string, with the error
\* "interface <name>: unkown" for the first piece that is no interface.
IfaceToName_Call ==
    /\ pc = "IfaceToName"
    /\ pc' = "IfaceToName returned"
    /\ IF interfaceNames = All
       THEN \E ok \in BOOLEAN :
               named' = IF ok THEN [r |-> hostIfaces, err |-> << >>]
                        ELSE [r |-> << >>, err |-> << "interfaces error" >>]
       ELSE LET pieces == Split(interfaceNames)
                u == Unknown(pieces, hostIfaces)
            IN  named' = [r |-> pieces,
                          err |-> IF u = 0 THEN << >>
                                  ELSE << "interface", pieces[u], "unkown" >>]
    /\ UNCHANGED << iface, addr, at, err, ret, handle, closes, stop, lpc,
                    packet, in, arrivals, out, idx, wrote, loc, rdv, due,
                    interfaceNames, hostIfaces >>

NextNames == IfaceToName_Call

SpecNames == InitNames /\ [][NextNames]_vars

\* ------------------------------------------------------------------ claims
\* A reply of a peer: a frame readARP keeps.
PeerReplies ==
    {f \in Frames : f.ARP /\ f.Operation = "reply" /\ f.SourceHwAddress # LocalHW}

\* Scan has returned to its caller (its deferred calls included).
Returned == pc = "Done"

\* C1: in a successful scan, once the send on stop has completed the listener
\* appends nothing more to the table, and the table Scan returns is the table
\* as it was at the rendezvous: every entry appended before it, in append order.
C1_StableAfterRendezvous ==
    rdv.done =>
        /\ at = rdv.at
        /\ lpc \notin {"select", "append"}
        /\ (pc \in {"CloseStop", "CloseHandle", "Done"} => ret = rdv.at /\ err = "")

\* C1 witness: a successful scan has returned a table with an entry while a
\* peer's reply was still waiting to be taken.
C1_Witness ==
    /\ Returned
    /\ rdv.done
    /\ Len(ret) >= 1
    /\ in # << >>
    /\ Head(in) \in PeerReplies

\* C2: whenever the coordinator is at a read of the table (the operand at of
\* either return statement), the rendezvous is behind it and the listener can
\* no longer append.
C2_ReadOnlyAfterRendezvous ==
    pc \in {"ReturnOk", "ReturnErr"} => rdv.done /\ lpc = "stopped"

\* C3: when Scan has returned and a listener was started, the listener has
\* terminated.
C3_ListenerTerminatedAtReturn ==
    (Returned /\ stop # "nil") => lpc = "stopped"

\* C4: the capture resource is closed at most once, exactly once in a scan that
\* opened it and returned, and it is only ever closed with the listener stopped.
C4_ClosedOnceAfterListener ==
    /\ closes <= 1
    /\ (Returned /\ handle # "unopened") => closes = 1
    /\ handle = "closed" => lpc = "stopped"

\* C5: when Scan returns an error, the table it returns with it is empty.
C5_NoPartialTable ==
    (Returned /\ err # "") => ret = << >>

\* The four range rules, stated on the interface descriptor.
IsIPv4(a) == a.IPNet /\ To4(a.IP) # << >>
HasIPv4(i) == \E k \in 1..Len(i.Addrs) : IsIPv4(i.Addrs[k])
FirstIPv4(i) ==
    i.Addrs[CHOOSE k \in 1..Len(i.Addrs) :
                /\ IsIPv4(i.Addrs[k])
                /\ \A j \in 1..(k - 1) : ~IsIPv4(i.Addrs[j])]
Broken(rule, i) ==
    CASE rule = "address" -> ~HasIPv4(i)
      [] rule = "hardware" -> i.HardwareAddr = << >>
      [] rule = "loopback" -> HasIPv4(i) /\ To4(FirstIPv4(i).IP)[1] = 127
      [] rule = "mask" ->
            /\ HasIPv4(i)
            /\ LET m == FirstIPv4(i).Mask IN
                  m[Len(m) - 3] # 255 \/ m[Len(m) - 2] # 255
RuleError(rule) ==
    CASE rule = "address" -> "no good IP network found"
      [] rule = "hardware" -> "Could not obtain MAC address"
      [] rule = "loopback" -> "skipping localhost"
      [] rule = "mask" -> "mask means network is too large"
RangeInvalid(i) == \E q \in {"address", "hardware", "loopback", "mask"} : Broken(q, i)

\* The error of the first rule, in the given order, that the interface breaks.
FirstBroken(order, i) ==
    RuleError(order[CHOOSE k \in 1..4 :
                        /\ Broken(order[k], i)
                        /\ \A j \in 1..(k - 1) : ~Broken(order[j], i)])

\* The resolver has run and Scan has returned.
Resolved == Returned /\ err # "addrs error"

\* C6 as claimed: the error returned is that of the first broken rule in the
\* order no address, no hardware address, loopback, mask.
C6_ClaimedOrder ==
    (Resolved /\ RangeInvalid(iface)) =>
        err = FirstBroken(<< "address", "hardware", "loopback", "mask" >>, iface)

\* C6 as amended: the error returned is that of the first broken rule in the
\* order no hardware address, no address, loopback, mask; an interface that
\* breaks no rule gets none of the four errors.
C6_CodeOrder ==
    Resolved =>
        IF RangeInvalid(iface)
        THEN err = FirstBroken(<< "hardware", "address", "loopback", "mask" >>, iface)
        ELSE err \notin {RuleError(q) : q \in {"address", "hardware", "loopback", "mask"}}

\* C6 witness: an interface with neither an IPv4 address nor a hardware
\* address has been refused, with the hardware-address error.
C6_Witness ==
    /\ Returned
    /\ iface.HardwareAddr = << >>
    /\ ~HasIPv4(iface)
    /\ err = "Could not obtain MAC address"

\* The number of host bits of a contiguous mask.
HostBits(m) == CHOOSE h \in 0..(MaxHostBits + 1) : m = ContiguousMask(h)

\* The low 16 bits of a 4-byte address, and the address with its low 16 bits set.
Low16(b) == b[3] * 256 + b[4]
WithLow16(b, v) == << b[1], b[2], v \div 256, v % 256 >>

\* The network address of base b under h host bits (the host id cleared), and
\* the address k above an address.
NetworkOf(b, h) == WithLow16(b, Low16(b) - (Low16(b) % (2 ^ h)))
Above(b, k) == WithLow16(b, Low16(b) + k)

\* C7: for a base address and a contiguous mask with h host bits, ips returns
\* the 2^h - 1 addresses network, network + 1, ... in ascending order with step
\* 1, which stop one short of the all-ones broadcast address network + 2^h - 1;
\* for 192.168.1.0 under 255.255.255.0 these are 192.168.1.0 to 192.168.1.254.
C7_NetworkUpToBroadcast ==
    pc = "ips returned" =>
        LET h == HostBits(addr.Mask)
            net == NetworkOf(addr.IP, h)
        IN  /\ Len(out) = 2 ^ h - 1
            /\ \A i \in 1..Len(out) : out[i] = Above(net, i - 1)
            /\ \A i \in 1..Len(out) : out[i] # Above(net, 2 ^ h - 1)
            /\ (addr = [IP |-> << 192, 168, 1, 0 >>, Mask |-> << 255, 255, 255, 0 >>]) =>
                  /\ Len(out) = 255
                  /\ out[1] = << 192, 168, 1, 0 >>
                  /\ out[255] = << 192, 168, 1, 254 >>

\* C7 witness: ips has returned the 255 addresses of 192.168.1.0/24.
C7_Witness ==
    /\ pc = "ips returned"
    /\ addr = [IP |-> << 192, 168, 1, 0 >>, Mask |-> << 255, 255, 255, 0 >>]
    /\ Len(out) = 255

\* C8: the listener's packet is always a frame taken from the capture; an
\* entry is added to the table only from an ARP frame whose operation is reply
\* and whose source hardware address is not the interface's; and taking any
\* other frame leaves the table, the coordinator and the error untouched.
C8_OnlyPeerReplies ==
    [][ /\ packet' # packet => (in # << >> /\ packet' = Head(in))
        /\ at' # at =>
              /\ packet.ARP
              /\ packet.Operation = "reply"
              /\ packet.SourceHwAddress # iface.HardwareAddr
              /\ at' = Append(at, arpTable(packet))
        /\ ( /\ in # << >>
             /\ in' = Tail(in)
             /\ ~( /\ Head(in).ARP
                   /\ Head(in).Operation = "reply"
                   /\ Head(in).SourceHwAddress # iface.HardwareAddr) ) =>
              /\ at' = at
              /\ lpc' = "select"
              /\ err' = err
              /\ pc' = pc ]_vars

\* C8 witness: with a peer's entry in the table, the listener has taken a reply
\* sent from the interface's own hardware address and dropped it.
C8_Witness ==
    /\ packet = ARPFrame("reply", LocalHW, << 192, 168, 1, 5 >>)
    /\ lpc = "select"
    /\ Len(at) = 1
    /\ err = ""

\* C9: once a write has failed (more candidates gone through than frames
\* written), the failing candidate is the last one gone through, the frames
\* written are those of the candidates before it, the scan is on its way out
\* with the write error and has not been through the window or the rendezvous.
C9_FirstWriteErrorStops ==
    idx > Len(wrote) =>
        /\ idx = Len(wrote) + 1
        /\ wrote = SubSeq(out, 1, idx - 1)
        /\ err = "write error"
        /\ pc \in {"ReturnErr", "CloseStop", "CloseHandle", "Done"}
        /\ ~rdv.done

\* C9 witness: a scan of three candidates has returned the write error after
\* the write of the second candidate failed.
C9_Witness ==
    /\ Returned
    /\ err = "write error"
    /\ Len(out) = 3
    /\ idx = 2
    /\ Len(wrote) = 1

\* C10: on an interface that breaks a range rule, the capture resource is never
\* opened, no stop channel is made, no listener is started and no frame is
\* written, and Scan returns with an error.
C10_InvalidRangeTouchesNothing ==
    RangeInvalid(iface) =>
        /\ handle = "unopened"
        /\ closes = 0
        /\ stop = "nil"
        /\ lpc = "none"
        /\ idx = 0
        /\ wrote = << >>
        /\ Returned => err # ""

\* C10 witness: Scan has returned the loopback error on an interface whose only
\* address is 127.0.0.1.
C10_Witness ==
    /\ Returned
    /\ iface = [HardwareAddr |-> LocalHW, Addrs |-> << AddrLoopback >>]
    /\ err = "skipping localhost"

\* The entries of the peers' replies among the frames of a queue, in order.
IsPeerReply(f) ==
    f.ARP /\ f.Operation = "reply" /\ f.SourceHwAddress # iface.HardwareAddr
Entries(q) ==
    LET kept == SelectSeq(q, IsPeerReply)
    IN  [k \in 1..Len(kept) |-> arpTable(kept[k])]

\* C11 as claimed: a successful scan returns one entry for every reply of a
\* peer that the capture delivered before the rendezvous, in arrival order.
C11_EveryReplyInWindow ==
    (Returned /\ err = "") => ret = rdv.due

\* C11 as amended: a successful scan returns one entry for every reply of a
\* peer that the listener took before the rendezvous, in arrival order and
\* with repeats kept; the replies delivered before the rendezvous that are not
\* in the table are exactly those still waiting in the queue at the rendezvous;
\* and no entry carries the interface's own hardware address.
C11_EveryReplyTaken ==
    (Returned /\ err = "") =>
        /\ ret \o Entries(rdv.in) = rdv.due
        /\ \A k \in 1..Len(ret) : ret[k].HardwareAddr # iface.HardwareAddr

\* C11 witness: a successful scan has returned two entries of the same peer,
\* from two replies of it.
C11_Witness ==
    /\ Returned
    /\ err = ""
    /\ Len(ret) = 2
    /\ ret[1] = ret[2]

RECURSIVE JoinComma(_)
\* The names of a list written one after the other with commas between them.
JoinComma(names) ==
    IF Len(names) = 1 THEN names[1]
    ELSE names[1] \o << "," >> \o JoinComma(Tail(names))

\* The host has an interface of the given name.
OnHost(name) == \E k \in 1..Len(hostIfaces) : hostIfaces[k] = name

\* C12: for the input "all" IfaceToName returns the host's interface names in
\* the host's order (unless the enumeration itself fails).  For any other input
\* the names it works on are the comma-separated entries of the input in the
\* order given; it returns them without error when every one is an interface
\* of the host, and otherwise its error names the first entry that is not.
C12_NamesInOrder ==
    pc = "IfaceToName returned" =>
        IF interfaceNames = All
        THEN \/ named = [r |-> hostIfaces, err |-> << >>]
             \/ named.err = << "interfaces error" >>
        ELSE /\ Len(named.r) >= 1
             /\ JoinComma(named.r) = interfaceNames
             /\ \A k \in 1..Len(named.r) : \A j \in 1..Len(named.r[k]) : named.r[k][j] # ","
             /\ IF \A k \in 1..Len(named.r) : OnHost(named.r[k])
                THEN named.err = << >>
                ELSE \E k \in 1..Len(named.r) :
                        /\ ~OnHost(named.r[k])
                        /\ \A j \in 1..(k - 1) : OnHost(named.r[j])
                        /\ named.err = << "interface", named.r[k], "unkown" >>

\* C12 witness: for "l,la" on a host with the interfaces a and al, the error
\* names l, the first of the two entries that are no interface.
C12_Witness ==
    /\ pc = "IfaceToName returned"
    /\ interfaceNames = << "l", ",", "l", "a" >>
    /\ hostIfaces = << << "a" >>, << "a", "l" >> >>
    /\ named.err = << "interface", << "l" >>, "unkown" >>

\* The 4-byte mask of the interface's first IPv4 address.
MaskOf(i) ==
    LET m == FirstIPv4(i).Mask IN SubSeq(m, Len(m) - 3, Len(m))

\* The resolver has accepted the range: the checks are behind Scan and it goes
\* on to open the capture resource (which may itself fail).
Accepted == pc \in {"OpenLive", "Go"} \/ (Returned /\ err = "open error")

\* The resolver has refused the range as too large, with nothing opened.
RefusedTooLarge ==
    Returned /\ err = "mask means network is too large" /\ handle = "unopened"

\* C13: on an interface with a hardware address and a non-loopback IPv4
\* address, once the checks have been made the range is accepted when the first
\* two mask bytes are both 0xff and refused as too large otherwise; 255.255.0.0
\* is accepted and 255.254.0.0 is refused.
C13_MaskBoundary ==
    ( /\ pc \notin {"Addrs", "Resolve"}
      /\ err # "addrs error"
      /\ iface.HardwareAddr # << >>
      /\ HasIPv4(iface)
      /\ To4(FirstIPv4(iface).IP)[1] # 127 ) =>
        /\ IF MaskOf(iface)[1] = 255 /\ MaskOf(iface)[2] = 255
           THEN Accepted
           ELSE RefusedTooLarge
        /\ MaskOf(iface) = << 255, 255, 0, 0 >> => Accepted
        /\ MaskOf(iface) = << 255, 254, 0, 0 >> => RefusedTooLarge

\* C13 witness: the capture resource has been opened on an interface whose
\* mask is 255.255.0.0.
C13_Witness ==
    /\ pc = "Go"
    /\ handle = "open"
    /\ MaskOf(iface) = << 255, 255, 0, 0 >>

\* C14: a scan that has reached the collection window, or offers the stop
\* signal, eventually returns with the rendezvous made and the listener
\* stopped, whatever frames keep arriving.
C14_RendezvousNotPostponed ==
    (pc \in {"Sleep", "SendStop"}) ~> (Returned /\ rdv.done /\ lpc = "stopped")

\* C14 witness: a scan has returned after a rendezvous made while frames were
\* waiting to be taken.
C14_Witness ==
    /\ Returned
    /\ rdv.done
    /\ Len(rdv.in) >= 2

\* The listener has been cancelled: by the rendezvous or by the closed channel.
Cancelled == rdv.done \/ stop = "closed"

\* The order every scan keeps up to the end of the transmit phase: the capture
\* is opened before the listener is started, the listener is started before a
\* frame is written, and the window and the send on stop come only after the
\* frame for the last candidate was written.
PhasesInOrder ==
    /\ lpc # "none" => handle # "unopened"
    /\ (pc \in {"Write", "ReturnErr"} \/ wrote # << >>) => lpc # "none"
    /\ (pc \in {"Sleep", "SendStop", "ReturnOk"} \/ rdv.done) => wrote = out /\ err = ""
    /\ rdv.done => pc \in {"ReturnOk", "CloseStop", "CloseHandle", "Done"}

\* C15 as stated: the phases come in order, and the listener is never
\* cancelled before the frame for the last candidate was written.
C15_CancelAfterLastWrite ==
    /\ PhasesInOrder
    /\ Cancelled => wrote = out

\* C15: the phases come in order; the listener is cancelled after the frame
\* for the last candidate was written, by the rendezvous, or else after a
\* write failed, by the close of stop on return, with candidates left
\* unwritten; a scan that returns without an error has made the rendezvous.
C15_CancelAfterLastWriteOrFailure ==
    /\ PhasesInOrder
    /\ Cancelled => \/ rdv.done /\ wrote = out /\ err = ""
                    \/ ~rdv.done /\ err = "write error" /\ Len(wrote) < Len(out)
    /\ (Returned /\ err = "") => rdv.done

\* C15 witness: a scan has returned after all three frames of its range were
\* written and the rendezvous was made.
C15_Witness ==
    /\ Returned
    /\ rdv.done
    /\ Len(wrote) = 3
    /\ wrote = out

\* c & mask = base & mask for the network n.
InNetwork(c, n) ==
    And32(Uint32(c), Uint32(n.Mask)) = And32(Uint32(n.IP), Uint32(n.Mask))

\* C16: every candidate ips produced for the network the resolver accepted
\* lies in that network, whatever the mask.
C16_CandidatesInNetwork ==
    \A k \in 1..Len(out) : InNetwork(out[k], addr)

\* C17: the send on stop and the close of stop both find the channel open, so
\* neither panics; once the channel is closed the coordinator has only the
\* release of the capture left, so it is closed once; it is closed after the
\* send has completed or without a send ever offered, on the transmit error;
\* and a scan that made the channel has closed it when it has returned.
C17_StopClosedOnce ==
    /\ pc = "SendStop" => stop = "open"
    /\ pc = "CloseStop" => stop = "open"
    /\ stop = "closed" => pc \in {"CloseHandle", "Done"}
    /\ stop = "closed" => (rdv.done /\ err = "") \/ (~rdv.done /\ err = "write error")
    /\ (Returned /\ stop # "nil") => stop = "closed"

\* C17 witness: the channel is closed, the send on it completed before, and
\* the capture is still to be released.
C17_Witness ==
    /\ pc = "CloseHandle"
    /\ stop = "closed"
    /\ rdv.done

\* C18: after a failed write the listener eventually stops, whatever frames
\* keep arriving, and stays stopped.
C18_ListenerStopsAfterFailure ==
    (err = "write error") ~> [](lpc = "stopped" /\ Returned)

\* C18 witness: a scan has returned the transmit error without a rendezvous
\* and its listener has stopped on the closed channel.
C18_Witness ==
    /\ Returned
    /\ err = "write error"
    /\ ~rdv.done
    /\ lpc = "stopped"

\* 0xffffffff - mask for the network n.
Iterations(n) ==
    (256 * 256 - 1 - Uint32(n.Mask).hi) * 256 * 256 + (256 * 256 - 1 - Uint32(n.Mask).lo)

\* The sequence s of 4-byte addresses ascends strictly and stays below 0xffffffff.
AscendsBelowAllOnes(s) ==
    /\ \A k \in 1..Len(s) : Less32(Uint32(s[k]), AllOnes32)
    /\ \A k \in 1..(Len(s) - 1) : Less32(Uint32(s[k]), Uint32(s[k + 1]))

\* C19: the loop of ips runs while fewer than 0xffffffff - mask addresses were
\* emitted and ends at exactly that many; the counter never falls below the
\* network address it started from and the emitted addresses ascend and stay
\* below 0xffffffff; under the mask 255.255.255.255 nothing is emitted and
\* writeARP writes no frame.
C19_IterationsAndNoWrap ==
    /\ pc = "ips loop" =>
          /\ Len(loc.out) <= Iterations(addr)
          /\ ipsRuns(loc) <=> Len(loc.out) < Iterations(addr)
          /\ ~Less32(loc.num, And32(Uint32(addr.IP), Uint32(addr.Mask)))
          /\ AscendsBelowAllOnes(loc.out)
    /\ pc \notin {"ips", "ips loop"} =>
          /\ Len(out) = Iterations(addr)
          /\ AscendsBelowAllOnes(out)
          /\ loc.mask = AllOnes32
          /\ Len(wrote) <= Len(out)
    /\ Uint32(addr.Mask) = AllOnes32 =>
          /\ loc.out = << >>
          /\ out = << >>
          /\ wrote = << >>
          /\ err = ""

\* C19 witness: writeARP has returned after writing the whole range of a
\* network based at 255.255.255.255, which ends at 255.255.255.254.
C19_Witness ==
    /\ pc = "Sleep"
    /\ addr.IP = << 255, 255, 255, 255 >>
    /\ Len(out) = 2 ^ MaxHostBits - 1
    /\ out[Len(out)] = << 255, 255, 255, 254 >>
    /\ wrote = out

====
